---- MODULE Spec2Model ----
(***************************************************************************)
(* Model of the NBN Record Cleaner verification-rule parser:               *)
(*   RuleParser      (src/RuleParser.py)     the per-kind grammars and the *)
(*                                           folder dispatcher read_rules  *)
(*   RuleOutput      (src/RuleOutput.py)     the consolidated rule list    *)
(*   RuleController  (src/RuleController.py) the top-level driver          *)
(*                                                                         *)
(* A rule file is modelled after ConfigParser has read it: the list of its *)
(* sections and, per section, its entries.  Strings are TLA+ strings; the  *)
(* case conversions the code applies are the tables upper and lower.       *)
(***************************************************************************)
EXTENDS Integers, Sequences, FiniteSets, TLC

\* ---------------------------------------------------------------------------
\* Bounds of the model
\* ---------------------------------------------------------------------------
MaxFiles == 2

\* populate_consol and write are run at most MaxRuns times on a parser
MaxRuns == 2
\* files in one rule folder, and files read in one run of the controller

\* ---------------------------------------------------------------------------
\* Strings
\* ---------------------------------------------------------------------------
ERROR == "<ERROR>"

UNBOUND == "<unbound local>"
\* a local variable of a grammar that no assignment has reached yet

NL == "\n"

upper(s) ==
    CASE s = "tvk1" -> "TVK1"
      [] s = "tvk2" -> "TVK2"
      [] OTHER -> s

lower(s) ==
    CASE s = "TVK1" -> "tvk1"
      [] s = "TVK2" -> "tvk2"
      [] s = "PeriodWithinYear" -> "periodwithinyear"
      [] s = "Period" -> "period"
      [] s = "AncillarySpecies" -> "ancillaryspecies"
      [] s = "WithoutPolygon" -> "withoutpolygon"
      [] s = "Bees_iDifficulty" -> "bees_idifficulty"
      [] s = "Bees" -> "bees"
      [] s = "iDifficulty" -> "idifficulty"
      [] s = "Moths_iDifficulty" -> "moths_idifficulty"
      [] s = "Additional" -> "additional"
      [] s = "FlightPeriod" -> "flightperiod"
      [] s = "SeasonalPeriod" -> "seasonalperiod"
      [] s = "Range" -> "range"
      [] s = "TenKm" -> "tenkm"
      [] s = "PlantRanges" -> "plantranges"
      [] s = "PeriodRange" -> "periodrange"
      [] s = "Other" -> "other"
      [] OTHER -> s

Min(a, b) == IF a <= b THEN a ELSE b

Range(s) == {s[i] : i \in DOMAIN s}

\* '\n'.join(lines).rstrip() : the value ConfigParser hands out for an entry
\* whose lines (values of the repeated key, '' for a blank line) are `lines`.
\* A text is a sequence of tokens, each a value or NL.
RECURSIVE RStrip(_)
RStrip(t) ==
    IF t = <<>> THEN <<>>
    ELSE IF t[Len(t)] = NL THEN RStrip(SubSeq(t, 1, Len(t) - 1))
    ELSE t

RECURSIVE JoinRaw(_)
JoinRaw(lines) ==
    IF lines = <<>> THEN <<>>
    ELSE LET l == lines[Len(lines)]
             init == SubSeq(lines, 1, Len(lines) - 1)
             tok == IF l = "" THEN <<>> ELSE <<l>>
         IN  IF init = <<>> THEN tok ELSE JoinRaw(init) \o <<NL>> \o tok

Join(lines) == RStrip(JoinRaw(lines))

\* str.replace('\n\n', '\n') : left to right, non-overlapping
RECURSIVE ReplaceNLNL(_)
ReplaceNLNL(t) ==
    IF Len(t) < 2 THEN t
    ELSE IF t[1] = NL /\ t[2] = NL
         THEN <<NL>> \o ReplaceNLNL(SubSeq(t, 3, Len(t)))
         ELSE <<t[1]>> \o ReplaceNLNL(Tail(t))

\* str.splitlines()
RECURSIVE SplitLines(_)
SplitLines(t) ==
    IF t = <<>> THEN <<>>
    ELSE IF t[1] = NL THEN <<"">> \o SplitLines(Tail(t))
    ELSE IF Len(t) >= 2 THEN <<t[1]>> \o SplitLines(SubSeq(t, 3, Len(t)))
    ELSE <<t[1]>>

\* ---------------------------------------------------------------------------
\* Rule files, as parsed by ConfigParser
\* ---------------------------------------------------------------------------
\* sections : the section names, in file order
\* Metadata, INI : entries of these sections (key -> value)
\* Data     : additional/difficulty: sequence of <<key, value>>;
\*            period family: key -> lines of the repeated key
\* GB, IR, CI : the keys of the three country sections
File(sections, meta, ini, data, gb, ir, ci) ==
    [sections |-> sections, Metadata |-> meta, INI |-> ini, Data |-> data,
     GB |-> gb, IR |-> ir, CI |-> ci]

has_section(f, s) == s \in Range(f.sections)

\* SectionProxy.get(key, default)
get(sect, key, default) == IF key \in DOMAIN sect THEN sect[key] ELSE default

\* Default with the <ERROR> marker in every lookup
Default_marker(grammar, key) == ERROR

\* the default of the `m_data.get(key, default)` of a grammar: self.ERROR,
\* but '' for the TestType of process_difficulty
Default(grammar, key) ==
    IF grammar = "process_difficulty" /\ key = "TestType" THEN "" ELSE ERROR

\* `m_data.get(key, default)` as the grammar writes it
lookup(grammar, m_data, key) == get(m_data, key, Default(grammar, key))

\* d_data.get(key, ERROR).replace('\n\n', '\n').splitlines()
data_array(d_data, key) ==
    LET text == IF key \in DOMAIN d_data THEN Join(d_data[key]) ELSE <<ERROR>>
    IN  SplitLines(ReplaceNLNL(text))

\* ---------------------------------------------------------------------------
\* The input corpus: files a rule folder may hold
\* ---------------------------------------------------------------------------
Without(m, k) == [x \in DOMAIN m \ {k} |-> m[x]]

PMeta(tt, tvk) ==
    ("TestType" :> tt @@ "Tvk" :> tvk @@ "ErrorMsg" :> "msg1" @@
     "StartDate" :> "d1" @@ "EndDate" :> "d2")

PData(stage, s_d, e_d) ==
    ("Stage" :> stage @@ "StartDate" :> s_d @@ "EndDate" :> e_d)

PFile(meta, data) ==
    File(<<"Metadata", "EndMetadata", "Data">>, meta, <<>>, data, <<>>, <<>>, <<>>)

\* one stage
DataOne == PData(<<"Adult">>, <<"d3">>, <<"d4">>)
\* two stages, the blocks separated by one blank line (it follows EndDate)
DataTwo == PData(<<"Adult", "Larva">>, <<"d3", "d5">>, <<"d4", "", "d6">>)
\* two stages, the blocks separated by two blank lines
DataTwoBlank == PData(<<"Adult", "Larva">>, <<"d3", "d5">>, <<"d4", "", "", "d6">>)
\* more stages than dates
DataLong == PData(<<"Adult", "Larva">>, <<"d3">>, <<"d4">>)
\* fewer stages than dates
DataShort == PData(<<"Adult">>, <<"d3", "d5">>, <<"d4", "d6">>)
\* no StartDate entry
DataMissing == Without(DataOne, "StartDate")

DataVariants ==
    {DataOne, DataTwo, DataTwoBlank, DataLong, DataShort, DataMissing, <<>>}

\* the files of a period-family folder: tt is the TestType its grammar
\* expects, others are TestTypes in another spelling or of another kind
PeriodFamilyFiles(tt, others) ==
    {PFile(PMeta(tt, "TVK1"), d) : d \in DataVariants}
    \cup {PFile(PMeta(tt, tvk), DataOne) : tvk \in {"tvk1", ""}}
    \cup {PFile(Without(PMeta(tt, "TVK1"), k), DataOne) :
               k \in {"TestType", "Tvk", "ErrorMsg", "EndDate"}}
    \cup {PFile(PMeta(t, "TVK1"), DataOne) : t \in others}
    \cup {File(<<"Metadata", "EndMetadata">>, PMeta(tt, "TVK1"), <<>>, <<>>,
               <<>>, <<>>, <<>>),
          File(<<"Data">>, <<>>, <<>>, DataOne, <<>>, <<>>, <<>>),
          File(<<"Metadata", "Foo", "Data", "Bar">>, PMeta(tt, "TVK1"),
               <<>>, DataOne, <<>>, <<>>, <<>>)}

GMeta(tt, tvk) ==
    ("TestType" :> tt @@ "DataRecordId" :> tvk @@ "ErrorMsg" :> "msg2")

GFile(meta, gb, ir, ci) ==
    File(<<"Metadata", "EndMetadata">>
            \o (IF gb = <<>> THEN <<>> ELSE <<"10km_GB">>)
            \o (IF ir = <<>> THEN <<>> ELSE <<"10km_Ireland">>)
            \o (IF ci = <<>> THEN <<>> ELSE <<"10km_CI">>),
         meta, <<>>, <<>>, gb, ir, ci)

PolygonFiles ==
    {GFile(GMeta("WithoutPolygon", tvk), <<>>, <<>>, <<>>) : tvk \in {"TVK1", "tvk2"}}
    \cup {GFile(GMeta("WithoutPolygon", "TVK1"), <<"sp01", "sp02">>, <<>>, <<>>),
          GFile(GMeta("WithoutPolygon", "TVK1"), <<"sp01">>, <<"j01">>, <<"wv01">>),
          GFile(GMeta("Period", "TVK1"), <<"sp01">>, <<>>, <<>>),
          GFile(Without(GMeta("WithoutPolygon", "TVK1"), "DataRecordId"),
                <<"sp01">>, <<>>, <<>>),
          GFile(Without(GMeta("WithoutPolygon", "TVK1"), "ErrorMsg"),
                <<"sp01">>, <<>>, <<>>),
          File(<<"10km_GB">>, <<>>, <<>>, <<>>, <<"sp01">>, <<>>, <<>>),
          File(<<"Metadata", "Foo", "10km_GB">>, GMeta("WithoutPolygon", "TVK2"),
               <<>>, <<>>, <<"sp01">>, <<>>, <<>>)}

AMeta(tt) == ("TestType" :> tt @@ "ErrorMsg" :> "msg3")

CodeTable == ("code1" :> "Text One" @@ "code2" :> "Text Two")

AFile(meta, data) ==
    File(<<"Metadata", "EndMetadata", "INI", "Data">>, meta, CodeTable, data,
         <<>>, <<>>, <<>>)

CodedFiles(tt) ==
    {AFile(AMeta(tt), d) :
        d \in {<< <<"tvk1", "code1">> >>,
               << <<"tvk1", "code1">>, <<"tvk2", "code1">> >>,
               << <<"tvk2", "code2">>, <<"tvk1", "code9">> >>,
               <<>>}}
    \cup {AFile(AMeta("Other"), << <<"tvk1", "code1">> >>),
          AFile(Without(AMeta(tt), "ErrorMsg"), << <<"tvk1", "code1">> >>),
          AFile(Without(AMeta(tt), "TestType"), << <<"tvk1", "code1">> >>),
          File(<<"INI", "Data">>, <<>>, CodeTable, << <<"tvk1", "code1">> >>,
               <<>>, <<>>, <<>>),
          File(<<"Metadata", "Data">>, AMeta(tt), <<>>, << <<"tvk1", "code1">> >>,
               <<>>, <<>>, <<>>),
          File(<<"Metadata", "INI">>, AMeta(tt), CodeTable, <<>>, <<>>, <<>>, <<>>),
          File(<<"Metadata", "Foo", "INI", "Data">>, AMeta(tt), CodeTable,
               << <<"tvk2", "code2">> >>, <<>>, <<>>, <<>>)}

Kinds ==
    {"additional", "difficulty", "flightperiod", "period", "seasonalperiod",
     "range", "tenkm"}

\* every file a folder handed to the grammar of `kind` may hold
GrammarFiles(kind) ==
    CASE kind \in {"flightperiod", "seasonalperiod"} ->
            PeriodFamilyFiles("PeriodWithinYear", {"periodwithinyear", "Period"})
      [] kind = "period" ->
            PeriodFamilyFiles("Period", {"period", "PeriodWithinYear"})
      [] kind \in {"range", "tenkm"} -> PolygonFiles
      [] kind = "additional" -> CodedFiles("AncillarySpecies")
      [] kind = "difficulty" -> CodedFiles("IdentificationDifficulty")

\* ---------------------------------------------------------------------------
\* RuleParser: the grammars, one file at a time
\* ---------------------------------------------------------------------------
\* Each *_file operator is one iteration of the grammar's `for f in files`
\* loop.  It yields the rules the iteration appends, the grammar's rv after
\* it, the locals that survive into the next iteration, and how the iteration
\* ends: "next" (the loop goes on), "return" (return False from inside the
\* loop) or "raise" (an exception leaves the grammar).
Outcome(rules, rv, res, tvk, error_msg) ==
    [rules |-> rules, rv |-> rv, res |-> res, tvk |-> tvk, error_msg |-> error_msg]

\* check_sections counting a file with unexpected sections once
check_sections_per_file(f, sections) ==
    IF \E i \in DOMAIN f.sections : f.sections[i] \notin sections THEN 1 ELSE 0

\* the number of sections check_sections adds to self.skips
check_sections(f, sections) ==
    Len(SelectSeq(f.sections, LAMBDA s : s \notin sections))

\* the lines check_sections writes to the skip log: one line naming the
\* skipped sections when there is any, none otherwise
skip_log(f, sections) ==
    LET skipped == SelectSeq(f.sections, LAMBDA s : s \notin sections)
    IN  IF skipped # <<>> THEN << skipped >> ELSE <<>>

\* additional_rules with the code itself as the information
additional_rules_raw_code(entries, org, error_msg, i_data) ==
    [j \in 1..Len(entries) |->
        [taxon_key |-> entries[j][1],
         organisation |-> org,
         message |-> error_msg,
         information |-> entries[j][2]]]

additional_rules(entries, org, error_msg, i_data) ==
    [j \in 1..Len(entries) |->
        [taxon_key |-> entries[j][1],
         organisation |-> org,
         message |-> error_msg,
         information |-> get(i_data, entries[j][2], ERROR)]]

process_additional_file(f, org, rv, error_msg0) ==
    LET hasM == has_section(f, "Metadata")
        tt == lookup("process_additional", f.Metadata, "TestType")
        error_msg == IF hasM
                     THEN lookup("process_additional", f.Metadata, "ErrorMsg")
                     ELSE error_msg0
        rv1 == IF hasM THEN rv /\ tt = "AncillarySpecies" /\ error_msg # ERROR
               ELSE FALSE
        hasD == has_section(f, "INI") /\ has_section(f, "Data")
        entries == IF hasD THEN f.Data ELSE <<>>
        unbound == entries # <<>> /\ error_msg = UNBOUND
    IN  Outcome(IF unbound THEN <<>>
                ELSE additional_rules(entries, org, error_msg, f.INI),
                rv1 /\ hasD,
                IF unbound THEN "raise" ELSE "next",
                UNBOUND, error_msg)

\* difficulty_rules with the [INI] text as the difficulty key
difficulty_rules_text_as_key(entries, org, i_data) ==
    [j \in 1..Len(entries) |->
        [taxon_key |-> entries[j][1],
         organisation |-> org,
         message |-> get(i_data, entries[j][2], ERROR),
         difficulty_key |-> get(i_data, entries[j][2], ERROR)]]

difficulty_rules(entries, org, i_data) ==
    [j \in 1..Len(entries) |->
        [taxon_key |-> entries[j][1],
         organisation |-> org,
         message |-> get(i_data, entries[j][2], ERROR),
         difficulty_key |-> entries[j][2]]]

process_difficulty_file(f, org, rv) ==
    LET hasM == has_section(f, "Metadata")
        tt == lookup("process_difficulty", f.Metadata, "TestType")
        rv1 == IF hasM THEN rv /\ tt = "IdentificationDifficulty" ELSE FALSE
        hasD == has_section(f, "INI") /\ has_section(f, "Data")
        entries == IF hasD THEN f.Data ELSE <<>>
    IN  Outcome(difficulty_rules(entries, org, f.INI), rv1 /\ hasD, "next",
                UNBOUND, UNBOUND)

\* stage_rules with the end date read from the start dates
stage_rules_start_as_end(tvk, org, error_msg, stage, s_d, e_d) ==
    [i \in 1..Min(Len(stage), Min(Len(s_d), Len(e_d))) |->
        [taxon_key |-> tvk,
         organisation |-> org,
         message |-> error_msg,
         start_date |-> s_d[i],
         end_date |-> s_d[i],
         stage |-> stage[i]]]

\* the rules of `for i in range(len(stage))`; s_d[i] or e_d[i] past the end
\* raises IndexError after the rules before it were appended
stage_rules(tvk, org, error_msg, stage, s_d, e_d) ==
    [i \in 1..Min(Len(stage), Min(Len(s_d), Len(e_d))) |->
        [taxon_key |-> tvk,
         organisation |-> org,
         message |-> error_msg,
         start_date |-> s_d[i],
         end_date |-> e_d[i],
         stage |-> stage[i]]]

\* the [Data] part shared by process_flightperiod and process_period_generic
data_block(f, org, rv, base, tvk, error_msg) ==
    IF has_section(f, "Data") /\ DOMAIN f.Data # {}
    THEN LET stage == data_array(f.Data, "Stage")
             s_d == data_array(f.Data, "StartDate")
             e_d == data_array(f.Data, "EndDate")
             rules == stage_rules(tvk, org, error_msg, stage, s_d, e_d)
         IN  IF ERROR \in Range(stage) \/ ERROR \in Range(s_d)
                \/ ERROR \in Range(e_d)
             THEN Outcome(<<base>>, FALSE, "return", tvk, error_msg)
             ELSE Outcome(<<base>> \o rules, rv,
                          IF Len(rules) < Len(stage) THEN "raise" ELSE "next",
                          tvk, error_msg)
    ELSE Outcome(<<base>>, rv, "next", tvk, error_msg)

process_flightperiod_file(f, org, rv) ==
    IF has_section(f, "Metadata")
    THEN LET m_data == f.Metadata
             tt == lookup("process_flightperiod", m_data, "TestType")
             tvk == lookup("process_flightperiod", m_data, "Tvk")
             error_msg == lookup("process_flightperiod", m_data, "ErrorMsg")
             start_date == lookup("process_flightperiod", m_data, "StartDate")
             end_date == lookup("process_flightperiod", m_data, "EndDate")
             rv1 == rv /\ tt = "PeriodWithinYear"
                       /\ ~(error_msg = ERROR \/ tvk = ERROR
                            \/ start_date = ERROR \/ end_date = ERROR)
             flight == [taxon_key |-> tvk,
                        organisation |-> org,
                        message |-> error_msg,
                        start_date |-> start_date,
                        end_date |-> end_date,
                        stage |-> ""]
         IN  data_block(f, org, rv1, flight, tvk, error_msg)
    ELSE Outcome(<<>>, FALSE, "next", UNBOUND, UNBOUND)

\* the base rule with the stage key whatever the test type
base_rule_staged(period, test_type) == period @@ [stage |-> ""]

\* `if test_type == 'PeriodWithinYear': period['stage'] = ''`
base_rule(period, test_type) ==
    IF test_type = "PeriodWithinYear" THEN period @@ [stage |-> ""] ELSE period

process_period_generic_file(f, org, rv, test_type) ==
    IF has_section(f, "Metadata")
    THEN LET m_data == f.Metadata
             tt == lookup("process_period_generic", m_data, "TestType")
             tvk == lookup("process_period_generic", m_data, "Tvk")
             error_msg == lookup("process_period_generic", m_data, "ErrorMsg")
             start_date == lookup("process_period_generic", m_data, "StartDate")
             end_date == lookup("process_period_generic", m_data, "EndDate")
             period == [taxon_key |-> tvk,
                        organisation |-> org,
                        message |-> error_msg,
                        start_date |-> start_date,
                        end_date |-> end_date]
             base == base_rule(period, test_type)
         IN  IF lower(tt) # lower(test_type)
             THEN Outcome(<<>>, FALSE, "return", UNBOUND, UNBOUND)
             ELSE IF error_msg = ERROR \/ tvk = ERROR
                     \/ start_date = ERROR \/ end_date = ERROR
             THEN Outcome(<<>>, FALSE, "return", tvk, error_msg)
             ELSE data_block(f, org, rv, base, tvk, error_msg)
    ELSE Outcome(<<>>, FALSE, "next", UNBOUND, UNBOUND)

\* process_country with the keys joined by ';'
RECURSIVE process_country_joined(_)
process_country_joined(keys) ==
    IF keys = <<>> THEN ""
    ELSE IF Len(keys) = 1 THEN keys[1]
    ELSE process_country_joined(SubSeq(keys, 1, Len(keys) - 1)) \o ";" \o keys[Len(keys)]

\* gr = gr + k + ';' over the keys of the country section
RECURSIVE process_country(_)
process_country(keys) ==
    IF keys = <<>> THEN ""
    ELSE process_country(SubSeq(keys, 1, Len(keys) - 1)) \o keys[Len(keys)] \o ";"

\* process_country(config, country_section): '' without the section
country(f, country_section, keys) ==
    IF has_section(f, country_section) THEN process_country(keys) ELSE ""

process_polygon_generic_file(f, org, rv, tvk0, error_msg0) ==
    LET hasM == has_section(f, "Metadata")
        m_data == f.Metadata
        tt == lookup("process_polygon_generic", m_data, "TestType")
        tvk == IF hasM
               THEN lookup("process_polygon_generic", m_data, "DataRecordId")
               ELSE tvk0
        error_msg == IF hasM
                     THEN lookup("process_polygon_generic", m_data, "ErrorMsg")
                     ELSE error_msg0
        rv1 == IF hasM THEN rv /\ tt = "WithoutPolygon"
                               /\ ~(tvk = ERROR \/ error_msg = ERROR)
               ELSE FALSE
        unbound == tvk = UNBOUND \/ error_msg = UNBOUND
        region == [taxon_key |-> tvk, organisation |-> org, message |-> error_msg]
                  @@ ("10km_GB" :> country(f, "10km_GB", f.GB)
                      @@ "10km_Ireland" :> country(f, "10km_Ireland", f.IR)
                      @@ "10km_CI" :> country(f, "10km_CI", f.CI))
    IN  Outcome(IF unbound THEN <<>> ELSE <<region>>, rv1,
                IF unbound THEN "raise" ELSE "next", tvk, error_msg)

\* list_of with process_tenkm appending to the ranges
list_of_tenkm_as_range(kind) ==
    CASE kind = "additional" -> "additionals"
      [] kind = "difficulty" -> "difficulties"
      [] kind = "flightperiod" -> "flights"
      [] kind = "period" -> "periods"
      [] kind = "range" -> "ranges"
      [] kind = "tenkm" -> "ranges"
      [] kind = "seasonalperiod" -> "seasonals"

\* the list of RuleParser a grammar appends to
list_of(kind) ==
    CASE kind = "additional" -> "additionals"
      [] kind = "difficulty" -> "difficulties"
      [] kind = "flightperiod" -> "flights"
      [] kind = "period" -> "periods"
      [] kind = "range" -> "ranges"
      [] kind = "tenkm" -> "regions"
      [] kind = "seasonalperiod" -> "seasonals"

ListNames ==
    <<"additionals", "difficulties", "flights", "periods", "ranges", "regions",
      "seasonals">>

\* ---------------------------------------------------------------------------
\* State
\* ---------------------------------------------------------------------------
VARIABLES
    parser,   \* RuleParser: the seven rule lists and the skips counter
    consol,   \* RuleOutput.consol
    ok,       \* the local ok of RuleController.process
    pc,       \* where RuleController.process is
    rr,       \* the frame of the running read_rules call
    gr,       \* the frame of the running grammar call
    fuel,     \* files the corpus may still hold
    thread,   \* the writer thread of process
    written,  \* what RuleOutput.write has done so far
    last,     \* history: the latest iteration of a grammar's file loop
    mod,      \* the dict of a section while ConfigParser reads its options
    tree      \* history: the folder handed to a grammar called on its own

vars == <<parser, consol, ok, pc, rr, gr, fuel, thread, written, last, mod, tree>>

RuleParser ==
    [additionals |-> <<>>, difficulties |-> <<>>, flights |-> <<>>,
     periods |-> <<>>, ranges |-> <<>>, regions |-> <<>>, seasonals |-> <<>>,
     skips |-> 0]

IdleGrammar ==
    [state |-> "idle", kind |-> "", org |-> "", files |-> <<>>, i |-> 0,
     rv |-> TRUE, tvk |-> UNBOUND, error_msg |-> UNBOUND]

\* folder : the name of the subfolder `for folder in folders` has just taken
\* leaf   : the name of the rule folder (a group or a sub-subfolder) taken
\* called : the grammar called on the subfolder or the rule folder, "unknown"
\*          when read_rules has none for it
\* The three are history, kept by a frame with names = TRUE while the
\* grammar called runs, and otherwise until the next step of read_rules.
IdleReadRules ==
    [state |-> "idle", org |-> "", ok |-> TRUE, rv |-> TRUE, level |-> "",
     failed |-> FALSE, names |-> FALSE, folder |-> "", leaf |-> "", called |-> ""]

NoLast ==
    [kind |-> "none", org |-> "", root |-> "", file |-> File(<<>>, <<>>, <<>>, <<>>, <<>>, <<>>, <<>>),
     n0 |-> 0, rv0 |-> TRUE, rv |-> TRUE, res |-> "none", i |-> 0, nfiles |-> 0,
     skip_log |-> <<>>]

\* RuleOutput.write before its first statement: populate_consol has not run
\* and no output file has been opened
NotWritten == [populated |-> FALSE, files |-> <<>>, runs |-> 0]

\* no grammar has been called on its own
NoTree == [kind |-> "none", files |-> <<>>, nested |-> <<>>]

\* no section is being read
NoDict == [allow_duplicates |-> FALSE, d |-> <<>>, sets |-> <<>>]

\* the folders of at most n files, each file of the set S
Folders(S, n) == UNION {[1..k -> S] : k \in 0..n}

\* `rv = self.process_x(org, folder)` in read_rules: the grammar's result
\* lands in the rv of the frame
Returned(frame, val) == [frame EXCEPT !.rv = val, !.failed = @ \/ ~val]

\* the frame without the names of the folders it was at
Forgot(frame) == [frame EXCEPT !.folder = "", !.leaf = "", !.called = ""]

\* the frame at the subfolder `folder` and the rule folder `leaf`
Named(frame, folder, leaf) ==
    IF frame.names
    THEN [frame EXCEPT !.folder = folder, !.leaf = leaf, !.called = ""]
    ELSE frame

\* the frame after the grammar `kind` was chosen for the folder it is at
Called(frame, kind) == IF frame.names THEN [frame EXCEPT !.called = kind] ELSE frame

\* ---------------------------------------------------------------------------
\* A grammar call
\* ---------------------------------------------------------------------------
\* files = get_files(folder); an empty folder returns False at once.
\* frame is the caller's frame at the call.
call_grammar(kind, org, files, frame) ==
    /\ gr.state = "idle"
    /\ fuel' = fuel - Len(files)
    /\ IF files = <<>>
       THEN /\ rr' = Returned(frame, FALSE)
            /\ gr' = gr
       ELSE /\ gr' = [state |-> "running", kind |-> kind, org |-> org,
                      files |-> files, i |-> 1, rv |-> TRUE,
                      tvk |-> UNBOUND, error_msg |-> UNBOUND]
            /\ rr' = frame
    /\ UNCHANGED <<parser, consol, ok, thread, written, last, mod>>

\* one iteration of `for f in files`, with outcome o
file_step(o, sections) ==
    LET f == gr.files[gr.i]
        list == list_of(gr.kind)
    IN  /\ parser' = [parser EXCEPT ![list] = @ \o o.rules,
                                    !.skips = @ + check_sections(f, sections)]
        /\ last' = [kind |-> gr.kind, org |-> gr.org, root |-> rr.org, file |-> f,
                    n0 |-> Len(parser[list]), rv0 |-> gr.rv, rv |-> o.rv,
                    res |-> o.res, i |-> gr.i, nfiles |-> Len(gr.files),
                    skip_log |-> skip_log(f, sections)]
        /\ gr' = IF o.res = "next"
                 THEN [gr EXCEPT !.i = @ + 1, !.rv = o.rv, !.tvk = o.tvk,
                                 !.error_msg = o.error_msg]
                 ELSE IdleGrammar
        /\ rr' = IF o.res = "return" THEN Returned(Forgot(rr), FALSE) ELSE rr
        /\ pc' = IF o.res = "raise" THEN "raised" ELSE pc
        /\ UNCHANGED <<consol, ok, fuel, thread, written, mod, tree>>

Running(kinds) ==
    /\ pc # "raised"
    /\ gr.state = "running"
    /\ gr.kind \in kinds
    /\ gr.i <= Len(gr.files)

process_additional ==
    /\ Running({"additional"})
    /\ file_step(process_additional_file(gr.files[gr.i], gr.org, gr.rv, gr.error_msg),
                 {"EndMetadata", "Metadata", "INI", "Data"})

process_difficulty ==
    /\ Running({"difficulty"})
    /\ file_step(process_difficulty_file(gr.files[gr.i], gr.org, gr.rv),
                 {"EndMetadata", "Metadata", "INI", "Data"})

process_flightperiod ==
    /\ Running({"flightperiod"})
    /\ file_step(process_flightperiod_file(gr.files[gr.i], gr.org, gr.rv),
                 {"EndMetadata", "Metadata", "Data"})

\* process_period and process_seasonalperiod
process_period_generic ==
    /\ Running({"period", "seasonalperiod"})
    /\ file_step(process_period_generic_file(gr.files[gr.i], gr.org, gr.rv,
                    IF gr.kind = "period" THEN "period" ELSE "PeriodWithinYear"),
                 {"EndMetadata", "Metadata", "Data"})

\* process_range and process_tenkm
process_polygon_generic ==
    /\ Running({"range", "tenkm"})
    /\ file_step(process_polygon_generic_file(gr.files[gr.i], gr.org, gr.rv,
                                              gr.tvk, gr.error_msg),
                 {"EndMetadata", "Metadata", "10km_GB", "10km_Ireland", "10km_CI"})

\* the loop is over: `return rv`
grammar_return ==
    /\ pc # "raised"
    /\ gr.state = "running"
    /\ gr.i > Len(gr.files)
    /\ rr' = Returned(Forgot(rr), gr.rv)
    /\ gr' = IdleGrammar
    /\ UNCHANGED <<parser, consol, ok, pc, fuel, thread, written, last, mod, tree>>

Grammar ==
    \/ process_additional
    \/ process_difficulty
    \/ process_flightperiod
    \/ process_period_generic
    \/ process_polygon_generic
    \/ grammar_return

\* ---------------------------------------------------------------------------
\* The grammars on their own: any grammar on any folder of an organisation
\* ---------------------------------------------------------------------------
InitGrammar ==
    /\ parser = RuleParser
    /\ consol = <<>>
    /\ ok = TRUE
    /\ pc = "grammar"
    /\ rr = IdleReadRules
    /\ gr = IdleGrammar
    /\ fuel = MaxFiles
    /\ thread = "none"
    /\ written = NotWritten
    /\ mod = NoDict
    /\ tree = NoTree
    /\ last = NoLast

\* what lies below the subfolders of a folder: a rule file named with an
\* extension, one named without, and a folder whose name holds a dot
NestedEntries ==
    {[name |-> "g.txt", isfile |-> TRUE], [name |-> "g", isfile |-> TRUE],
     [name |-> "v1.0", isfile |-> FALSE]}

\* fnmatch(name, '*.*') for the names of NestedEntries
matches_star_dot_star(name) == name \in {"g.txt", "v1.0"}

\* what config.read makes of a path glob returned: the rule file, or
\* nothing for a folder (read skips a path it cannot open)
NestedFile(entry) ==
    IF entry.isfile
    THEN AFile(AMeta("IdentificationDifficulty"), << <<"tvk1", "code1">> >>)
    ELSE File(<<>>, <<>>, <<>>, <<>>, <<>>, <<>>, <<>>)

\* glob(folder + '/**/*.*', recursive=True) on a folder without files of
\* its own: the nested paths whose last name matches '*.*', folders included
glob(nested) ==
    LET found == SelectSeq(nested, LAMBDA e : matches_star_dot_star(e.name))
    IN  [i \in DOMAIN found |-> NestedFile(found[i])]

\* the files of process_difficulty: get_files(folder), and the paths of glob
\* if there are none
difficulty_files(files, nested) ==
    IF files = <<>> THEN glob(nested) ELSE files

\* the folders of a kind: at most MaxFiles entries, files of the folder and
\* nested ones (only process_difficulty looks at the nested; for the other
\* kinds they are there when the folder has no file of its own)
Trees(kind) ==
    {t \in [files : Folders(GrammarFiles(kind), MaxFiles),
            nested : Folders(NestedEntries, MaxFiles)] :
        /\ Len(t.files) + Len(t.nested) <= MaxFiles
        /\ (kind # "difficulty" /\ t.files # <<>>) => t.nested = <<>>}

call_any_grammar ==
    /\ pc = "grammar"
    /\ pc' = "called"
    /\ \E kind \in Kinds :
         \E t \in Trees(kind) :
            /\ call_grammar(kind, "OrgA",
                            IF kind = "difficulty"
                            THEN difficulty_files(t.files, t.nested)
                            ELSE t.files,
                            rr)
            /\ tree' = [kind |-> kind, files |-> t.files, nested |-> t.nested]

NextGrammar == call_any_grammar \/ Grammar

SpecGrammar == InitGrammar /\ [][NextGrammar]_vars

\* ---------------------------------------------------------------------------
\* RuleOutput: the consolidated list
\* ---------------------------------------------------------------------------
NewRecord(id, taxon_key, ruleset, rule) ==
    [id |-> id,
     taxon_key |-> taxon_key,
     ruleset |-> ruleset,
     organisation |-> rule.organisation,
     message |-> rule.message,
     information |-> "",
     difficulty_key |-> "",
     start_date |-> "",
     end_date |-> "",
     stage |-> ""]
    @@ ("10km_GB" :> "" @@ "10km_Ireland" :> "" @@ "10km_CI" :> "")

\* create_consol_record as a fetch-or-create: the record of a taxon seen
\* before is fetched and its common fields are overwritten
create_consol_record_fetch(consol0, taxon_key, ruleset, rule) ==
    LET seen == {i \in DOMAIN consol0 : consol0[i].taxon_key = upper(taxon_key)}
    IN  IF seen = {}
        THEN [consol |-> Append(consol0,
                            NewRecord(Len(consol0) + 1, upper(taxon_key), ruleset, rule)),
              at |-> Len(consol0) + 1]
        ELSE LET i == CHOOSE x \in seen : TRUE
             IN  [consol |-> [consol0 EXCEPT ![i].ruleset = ruleset,
                                             ![i].organisation = rule.organisation,
                                             ![i].message = rule.message],
                  at |-> i]

\* create_consol_record without the upper()
create_consol_record_as_read(consol0, taxon_key, ruleset, rule) ==
    [consol |-> Append(consol0, NewRecord(Len(consol0) + 1, taxon_key, ruleset, rule)),
     at |-> Len(consol0) + 1]

\* create_consol_record appends the new record to self.consol and returns
\* it; `at` is the place in consol of the record returned.
create_consol_record(consol0, taxon_key, ruleset, rule) ==
    [consol |-> Append(consol0,
                    NewRecord(Len(consol0) + 1, upper(taxon_key), ruleset, rule)),
     at |-> Len(consol0) + 1]

\* one iteration of a loop of populate_consol: the record for the rule is
\* created, then record[k] = rule[k] for the fields k of the kind
consol_rule(consol0, ruleset, rule, fields) ==
    LET c == create_consol_record(consol0, rule.taxon_key, ruleset, rule)
    IN  [c.consol EXCEPT ![c.at] =
            [k \in DOMAIN @ |-> IF k \in fields THEN rule[k] ELSE @[k]]]

RECURSIVE consol_rules(_, _, _, _)
consol_rules(consol0, ruleset, rules, fields) ==
    IF rules = <<>> THEN consol0
    ELSE consol_rules(consol_rule(consol0, ruleset, Head(rules), fields),
                      ruleset, Tail(rules), fields)

GridFields == {"10km_GB", "10km_Ireland", "10km_CI"}

\* populate_consol that keeps the records of an earlier run
consol_clear_kept(consol0) == consol0

\* self.consol.clear()
consol_clear(consol0) == <<>>

\* populate_consol with the regions consolidated under the name of the ranges
populate_consol_region_as_range(consol0, p) ==
    LET c0 == consol_clear(consol0)
        c1 == consol_rules(c0, "additional", p.additionals, {"information"})
        c2 == consol_rules(c1, "difficulty", p.difficulties, {"difficulty_key"})
        c3 == consol_rules(c2, "flightperiod", p.flights,
                           {"start_date", "end_date", "stage"})
        c4 == consol_rules(c3, "period", p.periods, {"start_date", "end_date"})
        c5 == consol_rules(c4, "range", p.ranges, GridFields)
        c6 == consol_rules(c5, "range", p.regions, GridFields)
    IN  consol_rules(c6, "seasonal", p.seasonals,
                     {"start_date", "end_date", "stage"})

\* populate_consol with the seasonals consolidated before the regions
populate_consol_seasonal_first(consol0, p) ==
    LET c0 == consol_clear(consol0)
        c1 == consol_rules(c0, "additional", p.additionals, {"information"})
        c2 == consol_rules(c1, "difficulty", p.difficulties, {"difficulty_key"})
        c3 == consol_rules(c2, "flightperiod", p.flights,
                           {"start_date", "end_date", "stage"})
        c4 == consol_rules(c3, "period", p.periods, {"start_date", "end_date"})
        c5 == consol_rules(c4, "range", p.ranges, GridFields)
        c6 == consol_rules(c5, "seasonal", p.seasonals,
                           {"start_date", "end_date", "stage"})
    IN  consol_rules(c6, "region", p.regions, GridFields)

populate_consol(consol0, p) ==
    LET c0 == consol_clear(consol0)
        c1 == consol_rules(c0, "additional", p.additionals, {"information"})
        c2 == consol_rules(c1, "difficulty", p.difficulties, {"difficulty_key"})
        c3 == consol_rules(c2, "flightperiod", p.flights,
                           {"start_date", "end_date", "stage"})
        c4 == consol_rules(c3, "period", p.periods, {"start_date", "end_date"})
        c5 == consol_rules(c4, "range", p.ranges, GridFields)
        c6 == consol_rules(c5, "region", p.regions, GridFields)
    IN  consol_rules(c6, "seasonal", p.seasonals,
                     {"start_date", "end_date", "stage"})

\* ---------------------------------------------------------------------------
\* The corpus of a whole run: folder names and the files of the rule folders
\* ---------------------------------------------------------------------------
\* SKIP_FOLDERS with a name in another letter case
SKIP_FOLDERS_lower_case ==
    {"National Biodiversity Network Trust", "personal", "SystemRules"}

SKIP_FOLDERS == {"National Biodiversity Network Trust", "Personal", "SystemRules"}

OrgNames == {"OrgA", "OrgB", "Personal"}

FolderNames == {"Bees", "Bees_iDifficulty", "iDifficulty"}

GroupNames ==
    {"Period", "PlantRanges", "SeasonalPeriod", "PeriodRange", "Additional",
     "Other"}

LeafNames ==
    {"Additional", "FlightPeriod", "Period", "Range", "SeasonalPeriod", "TenKm",
     "Other"}

\* `sub in s`, for the lower-cased names of the corpus
contains(sub, s) ==
    CASE sub = "_idifficulty" -> s \in {"bees_idifficulty", "moths_idifficulty"}
      [] sub = "idifficulty" ->
            s \in {"bees_idifficulty", "moths_idifficulty", "idifficulty"}
      [] sub = "period" ->
            s \in {"period", "flightperiod", "seasonalperiod", "periodrange"}
      [] sub = "range" -> s \in {"range", "plantranges", "periodrange"}

CorpusFiles(kind) ==
    CASE kind \in {"flightperiod", "seasonalperiod"} ->
            {PFile(PMeta("PeriodWithinYear", "tvk1"), DataOne),
             PFile(PMeta("Period", "TVK1"), DataOne),
             PFile(PMeta("PeriodWithinYear", "TVK1"), DataLong)}
      [] kind = "period" ->
            {PFile(PMeta("Period", "TVK1"), <<>>),
             PFile(PMeta("PeriodWithinYear", "TVK1"), DataOne),
             PFile(PMeta("Period", "TVK1"), DataLong)}
      [] kind \in {"range", "tenkm"} ->
            {GFile(GMeta("WithoutPolygon", "TVK1"), <<"sp01">>, <<>>, <<>>),
             File(<<"10km_GB">>, <<>>, <<>>, <<>>, <<"sp01">>, <<>>, <<>>)}
      [] kind = "additional" ->
            {AFile(AMeta("AncillarySpecies"),
                   << <<"tvk1", "code1">>, <<"tvk2", "code9">> >>),
             File(<<"Metadata", "Data">>, AMeta("AncillarySpecies"), <<>>,
                  << <<"tvk1", "code1">> >>, <<>>, <<>>, <<>>)}
      [] kind = "difficulty" ->
            {AFile(AMeta("IdentificationDifficulty"), << <<"tvk1", "code1">> >>),
             File(<<"Metadata", "Data">>, AMeta("IdentificationDifficulty"), <<>>,
                  << <<"tvk1", "code1">> >>, <<>>, <<>>, <<>>)}

\* ---------------------------------------------------------------------------
\* RuleParser.read_rules, one folder at a time
\* ---------------------------------------------------------------------------
ReadRules(p) ==
    /\ pc = "read_rules"
    /\ rr.state = "running"
    /\ rr.level = p
    /\ gr.state = "idle"

\* a grammar is called on a folder of the corpus
dispatch(kind, frame) ==
    /\ \E files \in Folders(CorpusFiles(kind), Min(MaxFiles, fuel)) :
         call_grammar(kind, rr.org, files, Called(frame, kind))
    /\ UNCHANGED tree

\* unknown_folder as a `return False` of read_rules
unknown_folder_returns(frame) ==
    /\ rr' = [Returned(Called(frame, "unknown"), FALSE) EXCEPT !.level = "return"]
    /\ UNCHANGED <<parser, consol, ok, gr, fuel, thread, written, last, mod, tree>>

\* no grammar for the folder: log.error, rv = False
unknown_folder(frame) ==
    /\ rr' = Returned(Called(frame, "unknown"), FALSE)
    /\ UNCHANGED <<parser, consol, ok, gr, fuel, thread, written, last, mod, tree>>

\* '_idifficulty' in folder.lower(), with the name of the subfolder alone
in_difficulty_name_only(org, name) == contains("_idifficulty", lower(name))

\* '_idifficulty' in folder.lower(): folder is the path of the subfolder,
\* the organisation folder joined with the name
in_difficulty(org, name) ==
    \E part \in {org, name} : contains("_idifficulty", lower(part))

\* The folder lists are revealed as the loops go: a level names the loop
\* that has at least one more folder to take, "end_folder" and "return" the
\* places after the loops.
\* `for folder in folders`: the next subfolder of the organisation folder
next_folder ==
    /\ ReadRules("folders")
    /\ pc' = pc
    /\ \E name \in FolderNames :
         IF in_difficulty(rr.org, name)
         THEN dispatch("difficulty",
                       [Named(rr, name, "") EXCEPT !.rv = TRUE,
                                                   !.level = "end_folder"])
         ELSE \E groups \in BOOLEAN :
                /\ rr' = [Named(rr, name, "") EXCEPT !.rv = TRUE,
                            !.level = IF groups THEN "groups" ELSE "end_folder"]
                /\ UNCHANGED <<parser, consol, ok, gr, fuel, thread, written, last, mod, tree>>

\* next_group with 'range' looked for before 'period'
next_group_range_first ==
    /\ ReadRules("groups")
    /\ pc' = pc
    /\ \E name \in GroupNames, rules \in BOOLEAN, more \in BOOLEAN :
         LET r == lower(name)
             frame == [Named(rr, "", name) EXCEPT
                            !.level = IF more THEN "groups" ELSE "end_folder"]
         IN  IF ~rules
             THEN IF contains("range", r) THEN dispatch("range", frame)
                  ELSE IF contains("period", r) THEN dispatch("period", frame)
                  ELSE unknown_folder(frame)
             ELSE /\ rr' = [Forgot(rr) EXCEPT
                                !.level = IF more THEN "rules" ELSE "last_rules"]
                  /\ UNCHANGED <<parser, consol, ok, gr, fuel, thread, written, last, mod, tree>>

\* `for group in groups`: the next group folder of the subfolder
next_group ==
    /\ ReadRules("groups")
    /\ pc' = pc
    /\ \E name \in GroupNames, rules \in BOOLEAN, more \in BOOLEAN :
         LET r == lower(name)
             frame == [Named(rr, "", name) EXCEPT
                            !.level = IF more THEN "groups" ELSE "end_folder"]
         IN  IF ~rules
             THEN IF contains("period", r) THEN dispatch("period", frame)
                  ELSE IF contains("range", r) THEN dispatch("range", frame)
                  ELSE unknown_folder(frame)
             ELSE /\ rr' = [Forgot(rr) EXCEPT
                                !.level = IF more THEN "rules" ELSE "last_rules"]
                  /\ UNCHANGED <<parser, consol, ok, gr, fuel, thread, written, last, mod, tree>>

\* `for rule in rules`: the next rule folder of the group; "last_rules" are
\* the rule folders of the last group of the subfolder
next_rule ==
    /\ ReadRules("rules") \/ ReadRules("last_rules")
    /\ pc' = pc
    /\ \E name \in LeafNames, more \in BOOLEAN :
         LET r == lower(name)
             frame == [Named(rr, "", name) EXCEPT
                            !.level = IF more THEN rr.level
                                      ELSE IF rr.level = "rules" THEN "groups"
                                      ELSE "end_folder"]
         IN  IF r \in {"additional", "flightperiod", "period", "range",
                       "seasonalperiod", "tenkm"}
             THEN dispatch(r, frame)
             ELSE unknown_folder(frame)

\* the end of one `for folder in folders` iteration: if rv == False: ok = False
end_folder ==
    /\ ReadRules("end_folder")
    /\ \E more \in BOOLEAN :
         rr' = [Forgot(rr) EXCEPT !.ok = @ /\ rr.rv,
                                  !.level = IF more THEN "folders" ELSE "return"]
    /\ UNCHANGED <<parser, consol, ok, pc, gr, fuel, thread, written, last, mod, tree>>

\* `return ok`, and in process: if read_rules(folder) == False: ok = False
read_rules_return ==
    /\ ReadRules("return")
    /\ rr' = [rr EXCEPT !.state = "done"]
    /\ ok' = (ok /\ rr.ok)
    /\ pc' = "folders"
    /\ UNCHANGED <<parser, consol, gr, fuel, thread, written, last, mod, tree>>

\* ---------------------------------------------------------------------------
\* read_rules on its own: one call on the folder of an organisation, the
\* names of the folders kept
\* ---------------------------------------------------------------------------
RootNames == {"OrgA", "Moths_iDifficulty"}

InitReadRules ==
    /\ parser = RuleParser
    /\ consol = <<>>
    /\ ok = TRUE
    /\ pc = "read_rules"
    /\ \E root \in RootNames :
         rr = [IdleReadRules EXCEPT !.state = "running", !.org = root,
                                    !.level = "folders", !.names = TRUE]
    /\ gr = IdleGrammar
    /\ fuel = MaxFiles
    /\ thread = "none"
    /\ written = NotWritten
    /\ mod = NoDict
    /\ tree = NoTree
    /\ last = NoLast

NextReadRules ==
    \/ next_folder
    \/ next_group
    \/ next_rule
    \/ end_folder
    \/ read_rules_return
    \/ Grammar

SpecReadRules == InitReadRules /\ [][NextReadRules]_vars

\* ---------------------------------------------------------------------------
\* RuleController.process
\* ---------------------------------------------------------------------------
\* the species list is read by an external loader: it succeeds or not
read_specieslist ==
    /\ pc = "species"
    /\ pc' = "folders"
    /\ \E r \in BOOLEAN : ok' = r
    /\ UNCHANGED <<parser, consol, rr, gr, fuel, thread, written, last, mod, tree>>

\* `for ix, folder in enumerate(folders)`: a folder of SKIP_FOLDERS is
\* skipped (rr keeps its name, as history); read_rules returns False at once
\* for a folder without subfolders
process_folder ==
    /\ pc = "folders"
    /\ \E f \in OrgNames, folders \in BOOLEAN :
         IF f \in SKIP_FOLDERS
         THEN /\ rr' = [IdleReadRules EXCEPT !.state = "skipped", !.org = f]
              /\ UNCHANGED <<ok, pc>>
         ELSE IF ~folders
         THEN /\ ok' = FALSE
              /\ rr' = [IdleReadRules EXCEPT !.state = "done", !.org = f,
                                             !.ok = FALSE]
              /\ pc' = pc
         ELSE /\ rr' = [IdleReadRules EXCEPT !.state = "running", !.org = f,
                                             !.level = "folders"]
              /\ pc' = "read_rules"
              /\ ok' = ok
    /\ UNCHANGED <<parser, consol, gr, fuel, thread, written, last, mod, tree>>

\* the calls of write_file in RuleOutput.write, in order: the name of the
\* file, the list written and the fieldnames of its csv.DictWriter. The
\* species are held outside the seven lists; each of their rows has exactly
\* the eight fields of species_nbn.csv.
OutputFiles ==
    << [fn |-> "additionals.csv", data |-> "additionals",
        fields |-> {"taxon_key", "organisation", "message", "information"}],
       [fn |-> "difficulties.csv", data |-> "difficulties",
        fields |-> {"taxon_key", "organisation", "message", "difficulty_key"}],
       [fn |-> "flightperiods.csv", data |-> "flights",
        fields |-> {"taxon_key", "organisation", "message", "start_date",
                    "end_date", "stage"}],
       [fn |-> "periods.csv", data |-> "periods",
        fields |-> {"taxon_key", "organisation", "message", "start_date",
                    "end_date"}],
       [fn |-> "ranges.csv", data |-> "ranges",
        fields |-> {"taxon_key", "organisation", "message"} \cup GridFields],
       [fn |-> "regions.csv", data |-> "regions",
        fields |-> {"taxon_key", "organisation", "message"} \cup GridFields],
       [fn |-> "seasonals.csv", data |-> "seasonals",
        fields |-> {"taxon_key", "organisation", "message", "start_date",
                    "end_date", "stage"}],
       [fn |-> "species_nbn.csv", data |-> "species",
        fields |-> {"taxon_key", "preferred_tvk", "name", "authority", "group",
                    "name_type", "well_formed", "msg_id"}],
       [fn |-> "all_rules.csv", data |-> "consol",
        fields |-> {"id", "taxon_key", "ruleset", "organisation", "message",
                    "information", "difficulty_key", "start_date", "end_date",
                    "stage", "query"} \cup GridFields] >>

\* the rows handed to the i-th write_file call
OutputRows(i) ==
    LET data == OutputFiles[i].data
    IN  IF data = "species" THEN <<>>
        ELSE IF data = "consol" THEN consol
        ELSE parser[data]

\* csv.DictWriter.writerows raises ValueError on a row with a key that is
\* not among the fieldnames (extrasaction is 'raise' by default)
writerows_raises(data, fields) ==
    \E i \in DOMAIN data : ~(DOMAIN data[i] \subseteq fields)

\* thread_start that does not wait for the end of the folder loop
thread_start_in_loop ==
    /\ pc = "folders"
    /\ thread = "none"
    /\ pc' = pc
    /\ thread' = "alive"
    /\ UNCHANGED <<parser, consol, ok, rr, gr, fuel, written, last, mod, tree>>

\* the folders are done: thread = threading.Thread(target=self.output.write)
thread_start ==
    /\ pc = "folders"
    /\ pc' = "writing"
    /\ thread' = "alive"
    /\ UNCHANGED <<parser, consol, ok, rr, gr, fuel, written, last, mod, tree>>

\* output_write with the taxon key of each rule upper-cased in its list too
output_write_in_place ==
    /\ thread = "alive"
    /\ ~written.populated
    /\ consol' = populate_consol(consol, parser)
    /\ written' = [written EXCEPT !.populated = TRUE, !.runs = @ + 1]
    /\ parser' = [l \in DOMAIN parser |->
                    IF l = "skips" THEN parser[l]
                    ELSE [i \in DOMAIN parser[l] |->
                            [parser[l][i] EXCEPT !.taxon_key = upper(@)]]]
    /\ UNCHANGED <<ok, pc, rr, gr, fuel, thread, last, mod, tree>>

\* RuleOutput.write on the writer thread, its first statement:
\* self.populate_consol()
output_write ==
    /\ thread = "alive"
    /\ ~written.populated
    /\ consol' = populate_consol(consol, parser)
    /\ written' = [written EXCEPT !.populated = TRUE, !.runs = @ + 1]
    /\ UNCHANGED <<parser, ok, pc, rr, gr, fuel, thread, last, mod, tree>>

\* the write_file calls RuleOutput.write makes: all of them, or those up to
\* the first whose writerows raises (its file is opened, and so exists,
\* before the rows are written)
WrittenFiles ==
    LET raising == {i \in DOMAIN OutputFiles :
                      writerows_raises(OutputRows(i), OutputFiles[i].fields)}
        n == IF raising = {} THEN Len(OutputFiles)
             ELSE CHOOSE i \in raising : \A j \in raising : i <= j
    IN  [i \in 1..n |-> OutputFiles[i].fn]

\* RuleOutput.write on the writer thread, after populate_consol: the
\* write_file calls; the thread ends with the return of write or with the
\* ValueError of a writerows
write_files ==
    /\ thread = "alive"
    /\ written.populated
    /\ written' = [written EXCEPT !.files = WrittenFiles]
    /\ thread' = "dead"
    /\ UNCHANGED <<parser, consol, ok, pc, rr, gr, fuel, last, mod, tree>>

\* thread.join(), then the report of ok
thread_join ==
    /\ pc = "writing"
    /\ thread = "dead"
    /\ pc' = "done"
    /\ UNCHANGED <<parser, consol, ok, rr, gr, fuel, thread, written, last, mod, tree>>

Init ==
    /\ parser = RuleParser
    /\ consol = <<>>
    /\ ok = TRUE
    /\ pc = "species"
    /\ rr = IdleReadRules
    /\ gr = IdleGrammar
    /\ fuel = MaxFiles
    /\ thread = "none"
    /\ written = NotWritten
    /\ mod = NoDict
    /\ tree = NoTree
    /\ last = NoLast

Next ==
    \/ read_specieslist
    \/ process_folder
    \/ next_folder
    \/ next_group
    \/ next_rule
    \/ end_folder
    \/ read_rules_return
    \/ Grammar
    \/ thread_start
    \/ output_write
    \/ write_files
    \/ thread_join

Spec == Init /\ [][Next]_vars

\* ---------------------------------------------------------------------------
\* The dict of a section while ConfigParser reads the options of a file
\* ---------------------------------------------------------------------------
\* sets of one key a section may receive
MaxSets == 3

Keys == {"Stage", "StartDate"}

Values == {"5", "6", "7"}

\* `[optval]`: the value ConfigParser sets for an option line, a list of one
\* line (as do the sets of test_MultiOrderedDict)
ListOf(v) == [list |-> TRUE, items |-> <<v>>]

\* dict.__setitem__ : the later value replaces the earlier
dict_setitem(d, key, value) ==
    [k \in DOMAIN d \cup {key} |-> IF k = key THEN value ELSE d[k]]

\* MultiOrderedDict.__setitem__ without the extend
MultiOrderedDict_setitem_overwrite(d, key, value) ==
    dict_setitem(d, key, value)

\* MultiOrderedDict.__setitem__ : a list set on a key that is present extends
\* the list held, anything else is set as by dict
MultiOrderedDict_setitem(d, key, value) ==
    IF value.list /\ key \in DOMAIN d
    THEN [d EXCEPT ![key] = [@ EXCEPT !.items = @ \o value.items]]
    ELSE dict_setitem(d, key, value)

\* `cursect[optname] = [optval]` for one more option line of the section;
\* the dict is a MultiOrderedDict for get_configparser(allow_duplicates=True)
\* and a plain dict otherwise (strict=False lets a key repeat)
setitem ==
    /\ pc = "config_read"
    /\ Len(mod.sets) < MaxSets
    /\ \E key \in Keys, v \in Values :
         mod' = [mod EXCEPT
                   !.d = IF mod.allow_duplicates
                         THEN MultiOrderedDict_setitem(@, key, ListOf(v))
                         ELSE dict_setitem(@, key, ListOf(v)),
                   !.sets = Append(@, <<key, v>>)]
    /\ UNCHANGED <<parser, consol, ok, pc, rr, gr, fuel, thread, written, last, tree>>

InitMultiOrderedDict ==
    /\ parser = RuleParser
    /\ consol = <<>>
    /\ ok = TRUE
    /\ pc = "config_read"
    /\ rr = IdleReadRules
    /\ gr = IdleGrammar
    /\ fuel = MaxFiles
    /\ thread = "none"
    /\ written = NotWritten
    /\ last = NoLast
    /\ \E allow_duplicates \in BOOLEAN :
         mod = [NoDict EXCEPT !.allow_duplicates = allow_duplicates]
    /\ tree = NoTree

NextMultiOrderedDict == setitem

SpecMultiOrderedDict == InitMultiOrderedDict /\ [][NextMultiOrderedDict]_vars

\* ---------------------------------------------------------------------------
\* Properties of the grammars
\* ---------------------------------------------------------------------------
PeriodFamily == {"flightperiod", "period", "seasonalperiod"}

\* the list the latest file was parsed into
LastList == parser[list_of(last.kind)]

\* the rules the latest file appended
LastRules == SubSeq(LastList, last.n0 + 1, Len(LastList))

\* the TestType the grammar of a kind accepts
TestTypeOk(kind, tt) ==
    CASE kind = "additional" -> tt = "AncillarySpecies"
      [] kind = "difficulty" -> tt = "IdentificationDifficulty"
      [] kind = "flightperiod" -> tt = "PeriodWithinYear"
      [] kind = "period" -> tt \in {"Period", "period"}
      [] kind = "seasonalperiod" -> tt \in {"PeriodWithinYear", "periodwithinyear"}
      [] kind \in {"range", "tenkm"} -> tt = "WithoutPolygon"

RequiredFields(kind) ==
    CASE kind = "additional" -> {"TestType", "ErrorMsg"}
      [] kind = "difficulty" -> {"TestType"}
      [] kind \in PeriodFamily -> {"TestType", "Tvk", "ErrorMsg", "StartDate", "EndDate"}
      [] kind \in {"range", "tenkm"} -> {"TestType", "DataRecordId", "ErrorMsg"}

\* [Metadata] is there, with the TestType of the kind and every required field
ValidMetadata(kind, f) ==
    /\ has_section(f, "Metadata")
    /\ RequiredFields(kind) \subseteq DOMAIN f.Metadata
    /\ TestTypeOk(kind, f.Metadata["TestType"])

\* [Data] holds the three entries of a period-family file
HasArrays(f) ==
    /\ has_section(f, "Data")
    /\ {"Stage", "StartDate", "EndDate"} \subseteq DOMAIN f.Data

StageArray(f) == data_array(f.Data, "Stage")
StartArray(f) == data_array(f.Data, "StartDate")
EndArray(f) == data_array(f.Data, "EndDate")

EqualArrays(f) ==
    /\ HasArrays(f)
    /\ Len(StageArray(f)) = Len(StartArray(f))
    /\ Len(StageArray(f)) = Len(EndArray(f))

\* C1: a period-family file with valid [Metadata] and Stage, StartDate and
\* EndDate arrays of one length N appends exactly N+1 rules to the list of
\* its kind: the base rule, then N stage rules, the i-th carrying stage[i],
\* start_date[i] and end_date[i] with the taxon key, organisation and
\* message of the base rule.  (The arrays are the entries split as the
\* grammar splits them.)
C1_StageRulesAligned ==
    (/\ last.kind \in PeriodFamily
     /\ ValidMetadata(last.kind, last.file)
     /\ EqualArrays(last.file))
    => LET f == last.file
           N == Len(StageArray(f))
           base == LastRules[1]
       IN  /\ Len(LastRules) = N + 1
           /\ base.taxon_key = f.Metadata["Tvk"]
           /\ base.organisation = last.org
           /\ base.message = f.Metadata["ErrorMsg"]
           /\ base.start_date = f.Metadata["StartDate"]
           /\ base.end_date = f.Metadata["EndDate"]
           /\ \A i \in 1..N :
                LastRules[i + 1] =
                    [taxon_key |-> base.taxon_key,
                     organisation |-> base.organisation,
                     message |-> base.message,
                     start_date |-> StartArray(f)[i],
                     end_date |-> EndArray(f)[i],
                     stage |-> StageArray(f)[i]]

\* a second file of a folder, with two stages, has been parsed
C1_Witness ==
    /\ last.kind \in PeriodFamily
    /\ ValidMetadata(last.kind, last.file)
    /\ EqualArrays(last.file)
    /\ Len(StageArray(last.file)) = 2
    /\ last.n0 > 0
    /\ Len(LastRules) = 3

\* C2: a period-family file with valid [Metadata] whose Stage, StartDate and
\* EndDate arrays differ in length appends the base rule and no stage rule,
\* and the grammar returns False without raising.
C2_MismatchIsCleanFailure ==
    (/\ last.kind \in PeriodFamily
     /\ ValidMetadata(last.kind, last.file)
     /\ HasArrays(last.file)
     /\ ~EqualArrays(last.file))
    => /\ Len(LastRules) = 1
       /\ last.res = "return"
       /\ last.rv = FALSE

AllRules ==
    parser.additionals \o parser.difficulties \o parser.flights \o parser.periods
        \o parser.ranges \o parser.regions \o parser.seasonals

\* C3: every rule of the seven lists has a non-empty taxon key, and none of
\* its required fields is the <ERROR> sentinel.
C3_NoUnresolvedRule ==
    \A i \in DOMAIN AllRules :
        LET r == AllRules[i]
        IN  /\ r.taxon_key \notin {"", ERROR}
            /\ r.message # ERROR
            /\ "start_date" \in DOMAIN r
                  => r.start_date # ERROR /\ r.end_date # ERROR

\* the file fails: no or invalid [Metadata], a section the kind requires is
\* missing, or the [Data] arrays are missing or of different lengths
FileFails(kind, f) ==
    \/ ~ValidMetadata(kind, f)
    \/ /\ kind \in {"additional", "difficulty"}
       /\ ~(has_section(f, "INI") /\ has_section(f, "Data"))
    \/ /\ kind \in PeriodFamily
       /\ has_section(f, "Data")
       /\ DOMAIN f.Data # {}
       /\ ~EqualArrays(f)

\* C4: a file that fails, with files after it in its folder, clears the
\* success flag of the grammar and does not stop the loop: the later files
\* are still parsed.
C4_FailureDoesNotStopLoop ==
    (/\ last.kind # "none"
     /\ FileFails(last.kind, last.file)
     /\ last.i < last.nfiles)
    => (last.rv = FALSE /\ last.res = "next")

\* ---------------------------------------------------------------------------
\* Properties of a whole run
\* ---------------------------------------------------------------------------
\* C5: no malformed file or folder raises out of the parsing pass of
\* RuleController.process.
C5_ParsingNeverRaises == pc # "raised"

\* C6: read_rules returns False whenever a leaf folder under the organisation
\* folder failed (its grammar returned False or its name was unknown),
\* whatever the leaves after it did.
C6_FailureIsAggregated == (rr.state = "done" /\ rr.failed) => ~rr.ok

\* ---------------------------------------------------------------------------
\* Properties of the consolidated list
\* ---------------------------------------------------------------------------
\* populate_consol has run (and the lists do not change after it)
Consolidated == thread = "dead"

TaxonKeys == {upper(AllRules[i].taxon_key) : i \in DOMAIN AllRules}

RulesOf(t) == {i \in DOMAIN AllRules : upper(AllRules[i].taxon_key) = t}

RecordsOf(t) == {i \in DOMAIN consol : consol[i].taxon_key = t}

\* C7 as stated: after populate_consol no two consolidated records share a
\* taxon key (one record per distinct taxon key).
C7_OneRecordPerTaxon ==
    Consolidated =>
        \A i, j \in DOMAIN consol :
            consol[i].taxon_key = consol[j].taxon_key => i = j

\* C7, amended: after populate_consol the consolidated list holds exactly one
\* record per rule of the seven lists: a taxon with k rules has k records.
C7_OneRecordPerRule ==
    Consolidated =>
        /\ Len(consol) = Len(AllRules)
        /\ \A t \in TaxonKeys : Cardinality(RecordsOf(t)) = Cardinality(RulesOf(t))

\* a taxon with several rules has been consolidated
C7_Witness ==
    /\ Consolidated
    /\ \E t \in TaxonKeys : Cardinality(RulesOf(t)) >= 2

\* the pairs <<p, g>> of a Period rule and a Region rule of one taxon
PeriodRegionPairs ==
    {pg \in (DOMAIN parser.periods) \X (DOMAIN parser.regions) :
        upper(parser.periods[pg[1]].taxon_key) = upper(parser.regions[pg[2]].taxon_key)}

GridOf(r) == [k \in GridFields |-> r[k]]

\* C8 as stated: a taxon with a Period rule and a Region rule has a
\* consolidated record with the message, organisation and grid references of
\* the Region rule, ruleset 'region', and the start and end date of the
\* Period rule.
C8_RegionOverwritesPeriod ==
    Consolidated =>
        \A pg \in PeriodRegionPairs :
            LET p == parser.periods[pg[1]]
                g == parser.regions[pg[2]]
            IN  \E i \in DOMAIN consol :
                    /\ consol[i].taxon_key = upper(g.taxon_key)
                    /\ consol[i].ruleset = "region"
                    /\ consol[i].message = g.message
                    /\ consol[i].organisation = g.organisation
                    /\ GridOf(consol[i]) = GridOf(g)
                    /\ consol[i].start_date = p.start_date
                    /\ consol[i].end_date = p.end_date

\* C8, amended: a taxon with a Period rule and a Region rule has two
\* consolidated records: one of ruleset 'period' with the message,
\* organisation, start and end date of the Period rule and empty grid
\* references, and one of ruleset 'region' with the message, organisation and
\* grid references of the Region rule and empty start and end date.
C8_PeriodAndRegionRecords ==
    Consolidated =>
        /\ \A pg \in PeriodRegionPairs :
            LET p == parser.periods[pg[1]]
                g == parser.regions[pg[2]]
            IN  \E i, j \in DOMAIN consol :
                    /\ i # j
                    /\ consol[i].taxon_key = upper(p.taxon_key)
                    /\ consol[i].ruleset = "period"
                    /\ consol[i].message = p.message
                    /\ consol[i].organisation = p.organisation
                    /\ consol[i].start_date = p.start_date
                    /\ consol[i].end_date = p.end_date
                    /\ consol[j].taxon_key = upper(g.taxon_key)
                    /\ consol[j].ruleset = "region"
                    /\ consol[j].message = g.message
                    /\ consol[j].organisation = g.organisation
                    /\ GridOf(consol[j]) = GridOf(g)
        /\ \A i \in DOMAIN consol :
            /\ consol[i].ruleset = "period"
                  => GridOf(consol[i]) = [k \in GridFields |-> ""]
            /\ consol[i].ruleset = "region"
                  => consol[i].start_date = "" /\ consol[i].end_date = ""

\* a taxon with a Period rule and a Region rule has been consolidated
C8_Witness == Consolidated /\ PeriodRegionPairs # {}

\* the pairs of rules whose taxon keys differ only in letter case
CasePairs ==
    {xy \in (DOMAIN AllRules) \X (DOMAIN AllRules) :
        /\ AllRules[xy[1]].taxon_key # AllRules[xy[2]].taxon_key
        /\ upper(AllRules[xy[1]].taxon_key) = upper(AllRules[xy[2]].taxon_key)}

\* C9 as stated: the taxon keys of the rules are upper-case, and two rules
\* whose taxon keys differ only in letter case have one consolidated record
\* between them, with the upper-case key.
C9_CaseVariantsShareRecord ==
    /\ \A i \in DOMAIN AllRules :
          AllRules[i].taxon_key = upper(AllRules[i].taxon_key)
    /\ Consolidated =>
          \A xy \in CasePairs :
              Cardinality(RecordsOf(upper(AllRules[xy[1]].taxon_key))) = 1

\* C9, amended: the taxon key of a consolidated record is the upper-case form
\* of the key of its rule (the rule lists keep the key as read), and two
\* rules whose taxon keys differ only in letter case have a consolidated
\* record each, both with the upper-case key.
C9_CaseVariantsShareKey ==
    Consolidated =>
        /\ \A i \in DOMAIN consol : consol[i].taxon_key \in TaxonKeys
        /\ \A xy \in CasePairs :
              \E i, j \in RecordsOf(upper(AllRules[xy[1]].taxon_key)) : i # j

\* two rules whose keys differ only in case have been consolidated
C9_Witness == Consolidated /\ CasePairs # {}

\* ---------------------------------------------------------------------------
\* Properties of the Additional grammar
\* ---------------------------------------------------------------------------
\* C10: every [Data] entry (taxon key -> code) of a valid Additional file
\* appends exactly one rule to additionals, with the [INI] value of the code
\* as information, or <ERROR> when [INI] has no such code, and the name of
\* the organisation folder the file is under as organisation.
C10_AdditionalPerEntry ==
    (/\ last.kind = "additional"
     /\ ValidMetadata("additional", last.file)
     /\ has_section(last.file, "INI")
     /\ has_section(last.file, "Data"))
    => LET f == last.file
       IN  /\ Len(LastRules) = Len(f.Data)
           /\ \A j \in DOMAIN f.Data :
                LET code == f.Data[j][2]
                IN  LastRules[j] =
                        [taxon_key |-> f.Data[j][1],
                         organisation |-> last.root,
                         message |-> f.Metadata["ErrorMsg"],
                         information |-> IF code \in DOMAIN f.INI
                                         THEN f.INI[code] ELSE ERROR]

\* a valid Additional file with a code of [INI] and a code not in [INI]
C10_Witness ==
    /\ last.kind = "additional"
    /\ ValidMetadata("additional", last.file)
    /\ \E j, k \in DOMAIN LastRules :
          /\ LastRules[j].information = ERROR
          /\ LastRules[k].information = "Text One"
    /\ last.root = "OrgB"

\* ---------------------------------------------------------------------------
\* Properties of the Range and Region grammars
\* ---------------------------------------------------------------------------
Polygon == {"range", "tenkm"}

\* the keys of a country section of a file, none when the section is absent
CountryKeys(f, section) ==
    IF ~has_section(f, section) THEN <<>>
    ELSE CASE section = "10km_GB" -> f.GB
           [] section = "10km_Ireland" -> f.IR
           [] section = "10km_CI" -> f.CI

\* each key followed by ';'
RECURSIVE Terminated(_)
Terminated(keys) ==
    IF keys = <<>> THEN "" ELSE Head(keys) \o ";" \o Terminated(Tail(keys))

\* C11: a Range or Region file with valid [Metadata] appends exactly one
\* rule; each grid-reference field is the keys of its country section, each
\* followed by ';', and '' when the section is absent; the file does not
\* clear the success flag, also with all three sections absent.
C11_OneRulePerPolygonFile ==
    (last.kind \in Polygon /\ ValidMetadata(last.kind, last.file))
    => LET f == last.file
       IN  /\ Len(LastRules) = 1
           /\ \A c \in GridFields :
                LastRules[1][c] = Terminated(CountryKeys(f, c))
           /\ LastRules[1].taxon_key = f.Metadata["DataRecordId"]
           /\ last.res = "next"
           /\ last.rv = last.rv0

\* a valid file without any country section has been parsed, after a file
\* with two keys in a section, and the flag is still set
C11_Witness ==
    /\ last.kind \in Polygon
    /\ ValidMetadata(last.kind, last.file)
    /\ \A c \in GridFields : ~has_section(last.file, c)
    /\ Len(LastRules) = 1
    /\ \A c \in GridFields : LastRules[1][c] = ""
    /\ last.rv
    /\ last.n0 = 1
    /\ LastList[1]["10km_GB"] = "sp01;sp02;"

\* ---------------------------------------------------------------------------
\* Properties of read_rules
\* ---------------------------------------------------------------------------
\* read_rules is at work and keeps the names of its folders
InReadRules == pc = "read_rules" /\ rr.state = "running" /\ rr.names

\* C12 as stated: a subfolder of the organisation folder is routed, whole, to
\* the Difficulty grammar and to no other if its name contains 'idifficulty'
\* in any letter case, and is never routed to Difficulty otherwise.
C12_DifficultyByName ==
    InReadRules =>
        /\ rr.folder # "" =>
              (rr.called = "difficulty" <=> contains("idifficulty", lower(rr.folder)))
        /\ rr.called = "difficulty" => rr.folder # "" /\ rr.level = "end_folder"

\* C12, amended: a subfolder of the organisation folder is routed, whole, to
\* the Difficulty grammar and to no other if its path (the organisation
\* folder joined with its name) contains '_idifficulty' in any letter case,
\* and is never routed to Difficulty otherwise.
C12_DifficultyByPath ==
    InReadRules =>
        /\ rr.folder # "" =>
              (rr.called = "difficulty"
                  <=> \/ contains("_idifficulty", lower(rr.folder))
                      \/ contains("_idifficulty", lower(rr.org)))
        /\ rr.called = "difficulty" => rr.folder # "" /\ rr.level = "end_folder"

\* the Difficulty grammar has parsed a file of a subfolder named
\* Bees_iDifficulty
C12_Witness ==
    /\ InReadRules
    /\ rr.folder = "Bees_iDifficulty"
    /\ rr.called = "difficulty"
    /\ last.kind = "difficulty"
    /\ gr.state = "running"

\* the names read_rules has a grammar for, and the list of each
RuleFolders ==
    {"additional", "flightperiod", "period", "range", "seasonalperiod", "tenkm"}

MatchingList(r) ==
    CASE r = "additional" -> "additionals"
      [] r = "flightperiod" -> "flights"
      [] r = "period" -> "periods"
      [] r = "range" -> "ranges"
      [] r = "seasonalperiod" -> "seasonals"
      [] r = "tenkm" -> "regions"

\* read_rules takes the next sub-subfolder of a group
TakesRule ==
    /\ InReadRules
    /\ rr.level \in {"rules", "last_rules"}
    /\ gr.state = "idle"
    /\ rr'.leaf # ""

\* C13: a sub-subfolder of a group whose lower-cased name is one of
\* additional, flightperiod, period, range, seasonalperiod, tenkm is routed
\* to the grammar of that name, and while that grammar runs rules are
\* appended only to the matching list (additionals, flights, periods, ranges,
\* seasonals, regions).
C13_RuleFolderRouting ==
    [][/\ TakesRule /\ lower(rr'.leaf) \in RuleFolders
            => /\ rr'.called = lower(rr'.leaf)
               /\ gr'.state = "running" => gr'.kind = lower(rr'.leaf)
               /\ parser' = parser
       /\ (InReadRules /\ gr.state = "running" /\ rr.called \in RuleFolders)
            => /\ gr.kind = rr.called
               /\ \A l \in Range(ListNames) :
                     IF l = MatchingList(rr.called)
                     THEN /\ Len(parser'[l]) >= Len(parser[l])
                          /\ SubSeq(parser'[l], 1, Len(parser[l])) = parser[l]
                     ELSE parser'[l] = parser[l]
      ]_vars

\* a file of a sub-subfolder TenKm was parsed into the regions, after a file
\* of a sub-subfolder Range was parsed into the ranges
C13_Witness ==
    /\ InReadRules
    /\ rr.leaf = "TenKm"
    /\ gr.state = "running"
    /\ last.kind = "tenkm"
    /\ Len(parser.regions) = 1
    /\ Len(parser.ranges) = 1

\* read_rules has just met a rule folder it has no grammar for
AtUnknown == InReadRules /\ rr.called = "unknown"

\* C14: a rule folder of unrecognised name appends no rule and fails alone:
\* read_rules stays in its loops, and the next sibling, the next group or
\* the end of the subfolder is taken as after any other rule folder.
C14_UnknownLeafFailsAlone ==
    /\ [](AtUnknown =>
            /\ gr.state = "idle"
            /\ rr.rv = FALSE
            /\ rr.level \in {"rules", "last_rules", "groups", "end_folder"}
            /\ rr.level \in {"rules", "last_rules"} => ENABLED next_rule
            /\ rr.level = "groups" => ENABLED next_group
            /\ rr.level = "end_folder" => ENABLED end_folder)
    /\ [][(InReadRules /\ gr.state = "idle" /\ rr'.called = "unknown")
            => parser' = parser /\ pc' = pc /\ rr'.ok = rr.ok]_vars

\* an unrecognised rule folder was met after a file was parsed, and the
\* group holds more rule folders
C14_Witness ==
    /\ AtUnknown
    /\ rr.leaf = "Other"
    /\ rr.level = "rules"
    /\ Len(AllRules) > 0

\* a group folder without sub-subfolders is taken as a rule folder
TakesGroup ==
    /\ InReadRules
    /\ rr.level = "groups"
    /\ gr.state = "idle"
    /\ rr'.leaf # ""

\* the grammar of a group folder without sub-subfolders, by its name
Fallback(name) ==
    CASE name \in {"Period", "SeasonalPeriod", "PeriodRange"} -> "period"
      [] name = "PlantRanges" -> "range"
      [] name \in {"Additional", "Other"} -> "unknown"

\* C22: a group folder without sub-subfolders goes to the Period grammar if
\* its lower-cased name contains 'period', else to the Range grammar if it
\* contains 'range', and else is an unknown-folder error for which no
\* grammar runs; no other grammar is selected there.
C22_FallbackRouting ==
    [][TakesGroup =>
         /\ rr'.called = Fallback(rr'.leaf)
         /\ gr'.state = "running" => gr'.kind = Fallback(rr'.leaf)
         /\ Fallback(rr'.leaf) = "unknown" =>
               gr' = gr /\ rr'.rv = FALSE /\ parser' = parser
         /\ parser' = parser]_vars

\* the Period grammar runs on the files of a group PeriodRange, after the
\* Range grammar ran on those of a group PlantRanges
C22_Witness ==
    /\ InReadRules
    /\ rr.leaf = "PeriodRange"
    /\ rr.called = "period"
    /\ gr.state = "running"
    /\ gr.kind = "period"
    /\ last.kind = "range"

\* ---------------------------------------------------------------------------
\* Properties of RuleController.process
\* ---------------------------------------------------------------------------
\* C15: read_rules is never called on an organisation folder named
\* 'National Biodiversity Network Trust', 'Personal' or 'SystemRules';
\* skipping such a folder adds no rule to any list and does not clear the
\* success flag of the run.
C15_SkipFolders ==
    /\ [](/\ rr.state \in {"running", "done"} =>
                rr.org \notin {"National Biodiversity Network Trust", "Personal",
                               "SystemRules"}
          /\ rr.state = "skipped" => rr.org = "Personal")
    /\ [][(rr'.state = "skipped" /\ rr' # rr)
            => parser' = parser /\ ok' = ok /\ pc' = pc /\ gr' = gr]_vars

\* the folder Personal was skipped after rules were read, the flag still set
C15_Witness ==
    /\ rr.state = "skipped"
    /\ rr.org = "Personal"
    /\ Len(AllRules) > 0
    /\ ok

\* C16: no output file is written before every organisation folder has been
\* parsed and populate_consol has completed (the consolidated collection is
\* then the one of the final lists), and no step taken while the writer
\* thread is alive changes one of the seven lists.
C16_WriteAfterParse ==
    /\ [](/\ thread # "none" =>
                pc \in {"writing", "done"} /\ rr.state # "running"
                    /\ gr.state = "idle"
          /\ written.files # <<>> =>
                /\ thread # "none"
                /\ written.populated
                /\ consol = populate_consol(consol, parser))
    /\ [][thread = "alive" =>
            \A i \in DOMAIN ListNames :
                parser'[ListNames[i]] = parser[ListNames[i]]]_vars

\* every output file has been written, rules of two organisations among
\* their rows
C16_Witness ==
    /\ Len(written.files) = Len(OutputFiles)
    /\ \E i, j \in DOMAIN AllRules :
          AllRules[i].organisation # AllRules[j].organisation

\* the step of the writer thread that runs populate_consol
Populates == ~written.populated /\ written'.populated

\* C18: populate_consol leaves the seven lists unchanged: after it each list
\* holds the same rules, with the same field values, in the same order as
\* before, also when rules of several kinds share a taxon.
C18_ListsUnchanged ==
    [][Populates =>
         /\ \A i \in DOMAIN ListNames :
               parser'[ListNames[i]] = parser[ListNames[i]]
         /\ consol' = populate_consol(consol, parser')]_vars

\* the lists have been consolidated, a Period rule and a Region rule of one
\* taxon among them
C18_Witness ==
    /\ written.populated
    /\ thread = "alive"
    /\ PeriodRegionPairs # {}

\* the rulesets, in the order of the loops of populate_consol
KindOrder ==
    <<"additional", "difficulty", "flightperiod", "period", "range", "region",
      "seasonal">>

\* the number of rules in the lists before the k-th
RECURSIVE Offset(_)
Offset(k) == IF k = 1 THEN 0 ELSE Offset(k - 1) + Len(parser[ListNames[k - 1]])

\* C20: populate_consol consolidates the rules in the kind order additional,
\* difficulty, flightperiod, period, range, region, seasonal, and the rules
\* of one kind in the order of their list: the record of the j-th rule of
\* the k-th kind is written after those of all earlier kinds and of the
\* rules before it in its list, so of two rules of one taxon the one of the
\* later kind is written last.
C20_KindOrder ==
    written.populated =>
        /\ Len(consol) = Offset(Len(ListNames)) + Len(parser[ListNames[Len(ListNames)]])
        /\ \A k \in DOMAIN ListNames :
              \A j \in DOMAIN parser[ListNames[k]] :
                  LET rule == parser[ListNames[k]][j]
                      record == consol[Offset(k) + j]
                  IN  /\ record.id = Offset(k) + j
                      /\ record.ruleset = KindOrder[k]
                      /\ record.taxon_key = upper(rule.taxon_key)
                      /\ record.organisation = rule.organisation
                      /\ record.message = rule.message

\* rules of two kinds and one taxon have been consolidated, the rule of the
\* later kind read before the other
C20_Witness ==
    /\ written.populated
    /\ \E i, j \in DOMAIN consol :
          /\ i < j
          /\ consol[i].taxon_key = consol[j].taxon_key
          /\ consol[i].ruleset = "period"
          /\ consol[j].ruleset = "seasonal"
          /\ last.kind = "period"

\* ---------------------------------------------------------------------------
\* Properties of the section dicts
\* ---------------------------------------------------------------------------
\* the values set on a key so far, in arrival order
RECURSIVE ValuesSet(_, _)
ValuesSet(sets, key) ==
    IF sets = <<>> THEN <<>>
    ELSE LET rest == ValuesSet(SubSeq(sets, 1, Len(sets) - 1), key)
             s == sets[Len(sets)]
         IN  IF s[1] = key THEN Append(rest, s[2]) ELSE rest

\* C17: in duplicate-tolerant mode the entry of a key holds every value set
\* on it, in arrival order (k sets of one value each give k values); in the
\* unique-key mode it holds the value set last. A key never set has no entry.
C17_SetItem ==
    \A key \in Keys :
        LET vals == ValuesSet(mod.sets, key)
        IN  IF vals = <<>> THEN key \notin DOMAIN mod.d
            ELSE /\ key \in DOMAIN mod.d
                 /\ mod.d[key].items =
                        IF mod.allow_duplicates THEN vals
                        ELSE <<vals[Len(vals)]>>

\* test_MultiOrderedDict: three sets of one key, of 5, 6 and 7
C17_Witness ==
    /\ mod.allow_duplicates
    /\ mod.sets = <<<<"Stage", "5">>, <<"Stage", "6">>, <<"Stage", "7">>>>

\* ---------------------------------------------------------------------------
\* Properties of the lookups in [Metadata]
\* ---------------------------------------------------------------------------
\* the method that runs the file loop of a kind
MethodOf(kind) ==
    CASE kind = "additional" -> "process_additional"
      [] kind = "difficulty" -> "process_difficulty"
      [] kind = "flightperiod" -> "process_flightperiod"
      [] kind \in {"period", "seasonalperiod"} -> "process_period_generic"
      [] kind \in {"range", "tenkm"} -> "process_polygon_generic"

\* the [Metadata] keys a grammar looks up
Required(grammar) ==
    CASE grammar = "process_additional" -> {"TestType", "ErrorMsg"}
      [] grammar = "process_difficulty" -> {"TestType"}
      [] grammar \in {"process_flightperiod", "process_period_generic"} ->
            {"TestType", "Tvk", "ErrorMsg", "StartDate", "EndDate"}
      [] grammar = "process_polygon_generic" ->
            {"TestType", "DataRecordId", "ErrorMsg"}

\* the required keys the [Metadata] of the file just processed lacks
Absent ==
    IF last.kind # "none" /\ has_section(last.file, "Metadata")
    THEN Required(MethodOf(last.kind)) \ DOMAIN last.file.Metadata
    ELSE {}

\* C19 as stated: the lookup of a required field that is absent yields the
\* <ERROR> marker, in every grammar.
C19_MarkerEverywhere ==
    \A key \in Absent :
        lookup(MethodOf(last.kind), last.file.Metadata, key) = ERROR

\* C19, amended: the lookup of an absent key yields the default of the call,
\* which is the <ERROR> marker for every required field but the TestType of
\* a Difficulty file, where it is the empty string; a file whose [Metadata]
\* lacks a required field leaves the success flag of its grammar cleared.
C19_MarkerButDifficultyTestType ==
    \A key \in Absent :
        /\ lookup(MethodOf(last.kind), last.file.Metadata, key) =
              IF last.kind = "difficulty" /\ key = "TestType" THEN "" ELSE ERROR
        /\ ~last.rv

\* a Difficulty file whose [Metadata] has no TestType has been processed,
\* and its rule appended
C19_Witness ==
    /\ last.kind = "difficulty"
    /\ "TestType" \in Absent
    /\ Len(parser.difficulties) > last.n0

\* ---------------------------------------------------------------------------
\* Properties of the TestType check
\* ---------------------------------------------------------------------------
\* the TestType literal the grammar of a kind compares with
ExpectedTestType(kind) ==
    CASE kind = "additional" -> "AncillarySpecies"
      [] kind = "difficulty" -> "IdentificationDifficulty"
      [] kind \in {"flightperiod", "seasonalperiod"} -> "PeriodWithinYear"
      [] kind = "period" -> "Period"
      [] kind \in {"range", "tenkm"} -> "WithoutPolygon"

\* the file just processed has a [Metadata] with a TestType
HasTestType ==
    /\ last.kind # "none"
    /\ has_section(last.file, "Metadata")
    /\ "TestType" \in DOMAIN last.file.Metadata

\* C21: a file whose TestType does not match the literal of its kind, exactly
\* for additional, difficulty, range and region and whatever the letter case
\* for flightperiod, period and seasonalperiod, appends no rule and clears the
\* success flag of the grammar; a period-family file whose TestType differs
\* from the literal in letter case only passes the check.
C21_MismatchContributesNothing ==
    HasTestType =>
        LET tt == last.file.Metadata["TestType"]
            expected == ExpectedTestType(last.kind)
            matches == IF last.kind \in PeriodFamily
                       THEN lower(tt) = lower(expected)
                       ELSE tt = expected
        IN  /\ ~matches => (Len(LastRules) = 0 /\ ~last.rv)
            /\ (/\ matches
                /\ last.kind \in PeriodFamily
                /\ RequiredFields(last.kind) \subseteq DOMAIN last.file.Metadata
                /\ has_section(last.file, "Data") => EqualArrays(last.file)
                /\ last.rv0)
               => last.rv

\* ---------------------------------------------------------------------------
\* Properties of a grammar called on a folder without files
\* ---------------------------------------------------------------------------
\* the grammar called on its own has returned
GrammarReturned == pc = "called" /\ gr.state = "idle"

\* the nested entries of the folder that are files
NestedFiles == SelectSeq(tree.nested, LAMBDA e : e.isfile)

\* C23: a grammar called on a folder without files appends no rule and
\* returns False; the Difficulty grammar does so only if the folder has no
\* file at any depth either, and otherwise parses the nested files (each of
\* those of the corpus holds one rule and is valid).
C23_EmptyFolder ==
    (GrammarReturned /\ tree.files = <<>>) =>
        IF tree.kind = "difficulty" /\ NestedFiles # <<>>
        THEN /\ Len(parser.difficulties) = Len(NestedFiles)
             /\ last.kind = "difficulty"
        ELSE /\ AllRules = <<>>
             /\ rr.rv = FALSE
             /\ last = NoLast

\* ---------------------------------------------------------------------------
\* Unexpected sections
\* ---------------------------------------------------------------------------
\* the sections a grammar passes to check_sections
AllowList(kind) ==
    CASE kind \in {"additional", "difficulty"} ->
            {"EndMetadata", "Metadata", "INI", "Data"}
      [] kind \in {"flightperiod", "period", "seasonalperiod"} ->
            {"EndMetadata", "Metadata", "Data"}
      [] kind \in {"range", "tenkm"} ->
            {"EndMetadata", "Metadata", "10km_GB", "10km_Ireland", "10km_CI"}

\* the positions of the sections of f outside the allow-list of its grammar
Unexpected(kind, f) ==
    {i \in DOMAIN f.sections : f.sections[i] \notin AllowList(kind)}

\* f with its unexpected sections taken out
Expected(kind, f) ==
    [f EXCEPT !.sections = SelectSeq(@, LAMBDA s : s \in AllowList(kind))]

\* one iteration of the running grammar g on the file f
process_file(g, f) ==
    CASE g.kind = "additional" ->
            process_additional_file(f, g.org, g.rv, g.error_msg)
      [] g.kind = "difficulty" -> process_difficulty_file(f, g.org, g.rv)
      [] g.kind = "flightperiod" -> process_flightperiod_file(f, g.org, g.rv)
      [] g.kind \in {"period", "seasonalperiod"} ->
            process_period_generic_file(f, g.org, g.rv,
                IF g.kind = "period" THEN "period" ELSE "PeriodWithinYear")
      [] g.kind \in {"range", "tenkm"} ->
            process_polygon_generic_file(f, g.org, g.rv, g.tvk, g.error_msg)

\* C24: the iteration on a file adds to the skip counter the number of the
\* file's sections outside the allow-list of its grammar and writes one
\* skip-log line iff that number is positive; the rules it appends, the
\* success flag and the way it ends are those of the same file without the
\* unexpected sections; no step decreases the counter.
C24_SkipsCounted ==
    [][/\ parser'.skips >= parser.skips
       /\ Running(Kinds) =>
            LET f == gr.files[gr.i]
                n == Cardinality(Unexpected(gr.kind, f))
                o == process_file(gr, Expected(gr.kind, f))
                list == list_of(gr.kind)
            IN  /\ parser'.skips = parser.skips + n
                /\ Len(last'.skip_log) = IF n > 0 THEN 1 ELSE 0
                /\ parser'[list] = parser[list] \o o.rules
                /\ last'.rv = o.rv
                /\ last'.res = o.res]_vars

\* a file with two unexpected sections has been read after another file: the
\* counter went up by two, one line was logged and rules were appended
C24_Witness ==
    /\ last.kind # "none"
    /\ last.i = 2
    /\ Cardinality(Unexpected(last.kind, last.file)) = 2
    /\ parser.skips >= 2
    /\ Len(last.skip_log) = 1
    /\ LastRules # <<>>
    /\ last.rv

\* ---------------------------------------------------------------------------
\* The stage field of the period family
\* ---------------------------------------------------------------------------
\* C25: the first rule a Period file appends (its base rule) has no stage
\* field; the base rule of a Seasonal or FlightPeriod file has the stage
\* field ''; every rule after the base rule (a stage rule) of the three
\* kinds has a stage field.
C25_StageField ==
    (last.kind \in PeriodFamily /\ LastRules # <<>>) =>
        /\ last.kind = "period" => "stage" \notin DOMAIN LastRules[1]
        /\ last.kind \in {"seasonalperiod", "flightperiod"} =>
                /\ "stage" \in DOMAIN LastRules[1]
                /\ LastRules[1].stage = ""
        /\ \A i \in 2..Len(LastRules) : "stage" \in DOMAIN LastRules[i]

\* a Period file has appended its base rule and a stage rule
C25_Witness ==
    /\ last.kind = "period"
    /\ Len(LastRules) >= 2
    /\ "stage" \notin DOMAIN LastRules[1]
    /\ LastRules[2].stage = "Adult"

\* ---------------------------------------------------------------------------
\* Properties of the Difficulty grammar
\* ---------------------------------------------------------------------------
\* C26: every [Data] entry (taxon key -> code) of a Difficulty file with
\* [INI] and [Data] sections appends exactly one rule to difficulties, with
\* the code itself as difficulty_key and the [INI] value of the code as
\* message, or <ERROR> when [INI] has no such code.
C26_DifficultyPerEntry ==
    (/\ last.kind = "difficulty"
     /\ has_section(last.file, "INI")
     /\ has_section(last.file, "Data"))
    => LET f == last.file
       IN  /\ Len(LastRules) = Len(f.Data)
           /\ \A j \in DOMAIN f.Data :
                LET code == f.Data[j][2]
                IN  /\ LastRules[j].taxon_key = f.Data[j][1]
                    /\ LastRules[j].difficulty_key = code
                    /\ LastRules[j].message = IF code \in DOMAIN f.INI
                                              THEN f.INI[code] ELSE ERROR

\* a Difficulty file with a code of [INI] and a code not in [INI]
C26_Witness ==
    /\ last.kind = "difficulty"
    /\ has_section(last.file, "INI")
    /\ has_section(last.file, "Data")
    /\ \E j, k \in DOMAIN LastRules :
          /\ LastRules[j].difficulty_key = "code9"
          /\ LastRules[j].message = ERROR
          /\ LastRules[k].difficulty_key = "code2"
          /\ LastRules[k].message = "Text Two"

\* ---------------------------------------------------------------------------
\* Blank lines between the values of a [Data] entry
\* ---------------------------------------------------------------------------
\* the values of a repeated key without the blank lines between them
Values_of(lines) == SelectSeq(lines, LAMBDA l : l # "")

\* C27: the array of a [Data] entry (Stage, StartDate, EndDate) holds the
\* values of the entry and no empty element, however many blank lines
\* separate the values, so every stage rule pairs the i-th stage with the
\* i-th start date and the i-th end date.
C27_NoEmptyElement ==
    (last.kind \in PeriodFamily /\ HasArrays(last.file)) =>
        LET f == last.file
        IN  /\ \A key \in {"Stage", "StartDate", "EndDate"} :
                  /\ "" \notin Range(data_array(f.Data, key))
                  /\ data_array(f.Data, key) = Values_of(f.Data[key])
            /\ \A i \in 2..Len(LastRules) :
                  /\ LastRules[i].stage = Values_of(f.Data["Stage"])[i - 1]
                  /\ LastRules[i].start_date = Values_of(f.Data["StartDate"])[i - 1]
                  /\ LastRules[i].end_date = Values_of(f.Data["EndDate"])[i - 1]

\* ---------------------------------------------------------------------------
\* The [Metadata] a rule is built from
\* ---------------------------------------------------------------------------
\* C28: the rules a Range, Region or Additional file appends carry the
\* message (and, for Range and Region, the taxon key) of the [Metadata] of
\* that file, so a file without [Metadata] appends no rule.
C28_OwnMetadata ==
    (last.kind \in Polygon \cup {"additional"} /\ LastRules # <<>>) =>
        LET f == last.file
        IN  /\ has_section(f, "Metadata")
            /\ \A i \in DOMAIN LastRules :
                  /\ LastRules[i].message = get(f.Metadata, "ErrorMsg", ERROR)
                  /\ last.kind \in Polygon =>
                        LastRules[i].taxon_key =
                            get(f.Metadata, "DataRecordId", ERROR)

\* ---------------------------------------------------------------------------
\* RuleOutput on its own: populate_consol and write, run again and again on
\* the parser a grammar has filled
\* ---------------------------------------------------------------------------
\* the parser is filled: the grammar has returned
Filled ==
    /\ pc = "called"
    /\ gr.state = "idle"
    /\ written.runs < MaxRuns

\* RuleOutput.populate_consol()
RuleOutput_populate_consol ==
    /\ Filled
    /\ consol' = populate_consol(consol, parser)
    /\ written' = [written EXCEPT !.populated = TRUE, !.runs = @ + 1]
    /\ UNCHANGED <<parser, ok, pc, rr, gr, fuel, thread, last, mod, tree>>

\* RuleOutput.write(): populate_consol, then the write_file calls
RuleOutput_write ==
    /\ Filled
    /\ consol' = populate_consol(consol, parser)
    /\ parser' = parser
    /\ written' = [populated |-> TRUE, files |-> WrittenFiles',
                   runs |-> written.runs + 1]
    /\ UNCHANGED <<ok, pc, rr, gr, fuel, thread, last, mod, tree>>

NextOutput == NextGrammar \/ RuleOutput_populate_consol \/ RuleOutput_write

SpecOutput == InitGrammar /\ [][NextOutput]_vars

\* the number of rules in the seven lists of the parser
RuleCount ==
    Len(parser.additionals) + Len(parser.difficulties) + Len(parser.flights)
    + Len(parser.periods) + Len(parser.ranges) + Len(parser.regions)
    + Len(parser.seasonals)

\* C29: after populate_consol, run once or again, the consolidated list
\* holds one record per rule of the parser and the i-th record has id i, so
\* the ids are 1..n without gap or duplicate.
C29_IdsInOrder ==
    written.populated =>
        /\ Len(consol) = RuleCount
        /\ \A i \in DOMAIN consol : consol[i].id = i
        /\ {consol[i].id : i \in DOMAIN consol} = 1..Len(consol)

\* populate_consol has run a second time on a parser with two rules or more
C29_Witness ==
    /\ written.runs >= 2
    /\ Len(consol) >= 2
    /\ consol[Len(consol)].id = Len(consol)
    /\ Len(consol) = RuleCount

====
